---- MODULE Spec2Model ----
(***************************************************************************)
(* Model of two resources of terraform-provider-sonarqube:                 *)
(*   sonarqube/resource_sonarqube_permissions.go     (sonarqube_permissions)*)
(*   sonarqube/resource_sonarqube_gitlab_binding.go  (gitlab binding)       *)
(*                                                                         *)
(* A behaviour follows ONE resource instance (kind is fixed by Init).      *)
(* Every handler is one action: it runs to completion, including the Read  *)
(* that Create/Update end with.  A Go string is a sequence of one-character*)
(* strings, so that ToLower, EqualFold, SplitN and Sprintf are computed.   *)
(* The SonarQube server is the environment: a store the requests act on,   *)
(* plus a fault the environment may inject into one request of a handler.  *)
(***************************************************************************)
EXTENDS Integers, Sequences, FiniteSets, TLC

VARIABLES kind,       \* which resource this instance is
          conf,       \* ProviderConfiguration (sonarQubeEdition)
          d,          \* schema.ResourceData of the permissions resource
          b,          \* schema.ResourceData of the binding resource
          remote,     \* state of the SonarQube server
          log,        \* HTTP requests issued by the last handler, in order
          lastOp,     \* the last handler that ran
          lastErr,    \* what it returned
          arg,        \* the ResourceData it was called with
          createdId   \* identity stored by the last Create of this instance

vars == <<kind, conf, d, b, remote, log, lastOp, lastErr, arg, createdId>>

----------------------------------------------------------------------------
(* Bounds                                                                   *)

MaxPerms == 2

----------------------------------------------------------------------------
(* Go strings                                                               *)

Empty == <<>>

UpperCase == <<"A","B","C","D","E","F","G","H","I","J","K","L","M",
               "N","O","P","Q","R","S","T","U","V","W","X","Y","Z">>
LowerCase == <<"a","b","c","d","e","f","g","h","i","j","k","l","m",
               "n","o","p","q","r","s","t","u","v","w","x","y","z">>

LowerChar(c) ==
    IF \E i \in DOMAIN UpperCase : UpperCase[i] = c
    THEN LowerCase[CHOOSE i \in DOMAIN UpperCase : UpperCase[i] = c]
    ELSE c

\* strings.ToLower
ToLower(s) == [i \in DOMAIN s |-> LowerChar(s[i])]

\* strings.EqualFold: equality under simple case folding
EqualFold(s, t) == Len(s) = Len(t) /\ \A i \in DOMAIN s : LowerChar(s[i]) = LowerChar(t[i])

\* d.GetOk(key): ok is false for the zero value of the field
GetOk(v) == v # Empty

Community      == <<"c","o","m","m","u","n","i","t","y">>
ProjectCreator == <<"p","r","o","j","e","c","t","_","c","r","e","a","t","o","r">>
Gitlab         == <<"g","i","t","l","a","b">>
Github         == <<"g","i","t","h","u","b">>
StrTrue        == <<"t","r","u","e">>
StrFalse       == <<"f","a","l","s","e">>
PageSize       == <<"1","0","0">>

PermUser  == <<"u","s","e","r">>
PermScan  == <<"s","c","a","n">>
PermAdmin == <<"a","d","m","i","n">>

StatusOK        == 200
StatusNoContent == 204
StatusNotFound  == 404
StatusServerErr == 500

----------------------------------------------------------------------------
(* url.Values: key -> list of values                                        *)

QueryKeys == {"projectKey", "login", "groupName", "templateId", "templateName",
              "permission", "ps", "almSetting", "monorepo", "project", "repository"}

NoValues == [k \in QueryKeys |-> <<>>]

\* url.Values.Add appends a value to the key's list
ValuesAdd(q, k, v) == [q EXCEPT ![k] = Append(@, v)]

\* url.Values.Del removes every value of the key
ValuesDel(q, k) == [q EXCEPT ![k] = <<>>]

\* url.Values.Get: first value of the key, "" when absent
ValuesGet(q, k) == IF q[k] = <<>> THEN Empty ELSE q[k][1]

Request(method, path, query, expect, status) ==
    [method |-> method, path |-> path, query |-> query, expect |-> expect, status |-> status]

----------------------------------------------------------------------------
(* Values the declarations are drawn from                                   *)

LoginNames    == {Empty, <<"A","l">>}
GroupNames    == {Empty, <<"D","v">>}
SpecialNames  == {Empty, ProjectCreator}
ProjectKeys   == {Empty, <<"p","1">>}
TemplateIds   == {Empty, <<"T","1">>}
TemplateNames == {Empty, <<"D","f">>}
Perms         == {PermUser, PermScan}
UUIDs         == {<<"u","1">>, <<"u","2">>}

\* non-empty lists of permission values, duplicates included
PermLists == UNION {[1..n -> Perms] : n \in 1..MaxPerms}

----------------------------------------------------------------------------
(* The SonarQube server (the environment of the handlers)                   *)

PathAddUser             == "/api/permissions/add_user"
PathAddUserTemplate     == "/api/permissions/add_user_to_template"
PathAddGroup            == "/api/permissions/add_group"
PathAddGroupTemplate    == "/api/permissions/add_group_to_template"
PathAddCreator          == "/api/permissions/add_project_creator_to_template"
PathRemoveUser          == "/api/permissions/remove_user"
PathRemoveUserTemplate  == "/api/permissions/remove_user_from_template"
PathRemoveGroup         == "/api/permissions/remove_group"
PathRemoveGroupTemplate == "/api/permissions/remove_group_from_template"
PathRemoveCreator       == "/api/permissions/remove_project_creator_from_template"
PathUsers               == "/api/permissions/users"
PathTemplateUsers       == "/api/permissions/template_users"
PathGroups              == "/api/permissions/groups"
PathTemplateGroups      == "/api/permissions/template_groups"
PathSearchTemplates     == "/api/permissions/search_templates"
PathSetBinding          == "/api/alm_settings/set_gitlab_binding"
PathGetBinding          == "/api/alm_settings/get_binding"
PathDeleteBinding       == "/api/alm_settings/delete_binding"

TemplatePaths == {PathAddUserTemplate, PathAddGroupTemplate, PathAddCreator,
                  PathRemoveUserTemplate, PathRemoveGroupTemplate, PathRemoveCreator,
                  PathTemplateUsers, PathTemplateGroups}
UserPaths  == {PathAddUser, PathAddUserTemplate, PathRemoveUser, PathRemoveUserTemplate,
               PathUsers, PathTemplateUsers}
GroupPaths == {PathAddGroup, PathAddGroupTemplate, PathRemoveGroup, PathRemoveGroupTemplate,
               PathGroups, PathTemplateGroups}
AddPaths    == {PathAddUser, PathAddUserTemplate, PathAddGroup, PathAddGroupTemplate, PathAddCreator}
RemovePaths == {PathRemoveUser, PathRemoveUserTemplate, PathRemoveGroup, PathRemoveGroupTemplate,
                PathRemoveCreator}

ServerTemplateIds == {<<"t","1">>, <<"T","1">>, <<"X","2">>}
GlobalScope == <<"global", Empty>>
NoScope     == <<"none", Empty>>
Scopes == {GlobalScope} \cup {<<"project", k>> : k \in ProjectKeys \ {Empty}}
                        \cup {<<"template", t>> : t \in ServerTemplateIds}

\* index of the first element of seq that satisfies P, 0 when there is none
FirstIndex(seq, P(_)) ==
    IF \E i \in DOMAIN seq : P(seq[i])
    THEN CHOOSE i \in DOMAIN seq : P(seq[i]) /\ \A j \in 1..(i-1) : ~P(seq[j])
    ELSE 0

\* the template a request names: by id (exact), else by name (case-insensitive)
TemplateIndex(templates, q) ==
    IF q["templateId"] # <<>>
    THEN FirstIndex(templates, LAMBDA t : t.id = ValuesGet(q, "templateId"))
    ELSE IF q["templateName"] # <<>>
    THEN FirstIndex(templates, LAMBDA t : EqualFold(t.name, ValuesGet(q, "templateName")))
    ELSE 0

TemplateScope(templates, i) == IF i = 0 THEN NoScope ELSE <<"template", templates[i].id>>

ScopeOfRequest(r, path, q) ==
    IF path \in TemplatePaths
    THEN TemplateScope(r.templates, TemplateIndex(r.templates, q))
    ELSE IF q["projectKey"] # <<>> THEN <<"project", ValuesGet(q, "projectKey")>>
    ELSE GlobalScope

Grant(perms, p)  == IF \E i \in DOMAIN perms : perms[i] = p THEN perms ELSE Append(perms, p)
Revoke(perms, p) == SelectSeq(perms, LAMBDA x : x # p)

GrantAt(list, i, name, p) ==
    IF i = 0 THEN Append(list, [name |-> name, permissions |-> <<p>>])
    ELSE [list EXCEPT ![i].permissions = Grant(@, p)]

GrantPrincipal(list, name, p) ==
    GrantAt(list, FirstIndex(list, LAMBDA e : e.name = name), name, p)

RevokePrincipal(list, name, p) ==
    [i \in DOMAIN list |->
        IF list[i].name = name THEN [list[i] EXCEPT !.permissions = Revoke(@, p)] ELSE list[i]]

GrantCreator(perms, p) ==
    IF \E i \in DOMAIN perms : perms[i].key = p
    THEN [i \in DOMAIN perms |->
            IF perms[i].key = p THEN [perms[i] EXCEPT !.withProjectCreator = TRUE] ELSE perms[i]]
    ELSE Append(perms, [key |-> p, withProjectCreator |-> TRUE])

RevokeCreator(perms, p) ==
    [i \in DOMAIN perms |->
        IF perms[i].key = p THEN [perms[i] EXCEPT !.withProjectCreator = FALSE] ELSE perms[i]]

NoBody == [none |-> TRUE]

Reply(status, r, body) == [status |-> status, remote |-> r, body |-> body]

UsersBody(list) ==
    [users |-> [i \in DOMAIN list |->
                    [login |-> list[i].name, permissions |-> list[i].permissions]]]

\* /api/permissions/*: what the server does with one request, whose scope is
\* `scope`, whose template is the ti-th and whose permission is p
ServeScoped(r, path, q, scope, ti, p) ==
    IF path = PathSearchTemplates
    THEN Reply(StatusOK, r, [permissionTemplates |-> r.templates])
    ELSE IF path \in {PathAddCreator, PathRemoveCreator}
    THEN IF ti = 0 \/ q["permission"] = <<>> THEN Reply(StatusNotFound, r, NoBody)
         ELSE Reply(StatusNoContent,
                    [r EXCEPT !.templates[ti].permissions =
                        IF path = PathAddCreator THEN GrantCreator(@, p) ELSE RevokeCreator(@, p)],
                    NoBody)
    ELSE IF scope = NoScope
    THEN Reply(StatusNotFound, r, NoBody)
    ELSE IF path \in {PathUsers, PathTemplateUsers}
    THEN Reply(StatusOK, r, UsersBody(r.users[scope]))
    ELSE IF path \in {PathGroups, PathTemplateGroups}
    THEN Reply(StatusOK, r, [groups |-> r.groups[scope]])
    ELSE IF q["permission"] = <<>>
    THEN Reply(StatusNotFound, r, NoBody)
    ELSE IF path \in UserPaths
    THEN Reply(StatusNoContent,
               [r EXCEPT !.users[scope] =
                    IF path \in AddPaths THEN GrantPrincipal(@, ValuesGet(q, "login"), p)
                    ELSE RevokePrincipal(@, ValuesGet(q, "login"), p)],
               NoBody)
    ELSE Reply(StatusNoContent,
               [r EXCEPT !.groups[scope] =
                    IF path \in AddPaths THEN GrantPrincipal(@, ValuesGet(q, "groupName"), p)
                    ELSE RevokePrincipal(@, ValuesGet(q, "groupName"), p)],
               NoBody)

ServePermissions(r, path, q) ==
    ServeScoped(r, path, q, ScopeOfRequest(r, path, q), TemplateIndex(r.templates, q),
                ValuesGet(q, "permission"))

\* the projects that exist on the server (a project key holds no "/")
ServerProjects == {<<"a">>, <<"c">>}

NoBinding == [bound |-> FALSE, key |-> Empty, alm |-> Empty, repository |-> Empty,
              monorepo |-> FALSE]

\* /api/alm_settings/*: set_gitlab_binding is an upsert of the project's binding
ServeProject(r, path, q, project, m) ==
    IF project \notin ServerProjects
    THEN Reply(StatusNotFound, r, NoBody)
    ELSE IF path = PathSetBinding
    THEN IF ~(EqualFold(m, StrTrue) \/ EqualFold(m, StrFalse)) \/ q["almSetting"] = <<>>
            \/ q["repository"] = <<>>
         THEN Reply(StatusNotFound, r, NoBody)
         ELSE Reply(StatusNoContent,
                    [r EXCEPT !.bindings[project] =
                        [bound |-> TRUE, key |-> q["almSetting"][1], alm |-> Gitlab,
                         repository |-> q["repository"][1], monorepo |-> EqualFold(m, StrTrue)]],
                    NoBody)
    ELSE IF path = PathGetBinding
    THEN IF r.bindings[project].bound
         THEN Reply(StatusOK, r,
                    [key |-> r.bindings[project].key, alm |-> r.bindings[project].alm,
                     repository |-> r.bindings[project].repository,
                     monorepo |-> r.bindings[project].monorepo])
         ELSE Reply(StatusNotFound, r, NoBody)
    ELSE Reply(StatusNoContent, [r EXCEPT !.bindings[project] = NoBinding], NoBody)

ServeBinding(r, path, q) ==
    ServeProject(r, path, q, ValuesGet(q, "project"), ValuesGet(q, "monorepo"))

BindingPaths == {PathSetBinding, PathGetBinding, PathDeleteBinding}

Serve(r, path, q) ==
    IF path \in BindingPaths THEN ServeBinding(r, path, q) ELSE ServePermissions(r, path, q)

----------------------------------------------------------------------------
(* The transport invoker: one request, status checked against `expect`.     *)
(* The environment may inject one fault into a handler call: into its       *)
(* at-th request, of kind "status" (the request fails or the server answers *)
(* with another status; it has no effect) or "decode" (the body is not the  *)
(* JSON the caller decodes).                                                *)

NoFault == [at |-> 0, kind |-> "status"]
\* no fault, a failure of one of n requests, or an undecodable body of the last
Faults(n) == {NoFault} \cup [at : 1..n, kind : {"status"}] \cup {[at |-> n, kind |-> "decode"]}
\* no fault, or a failure of one of n requests
StatusFaults(n) == {NoFault} \cup [at : 1..n, kind : {"status"}]
FaultAt(fault, i) == IF fault.at = i THEN fault.kind ELSE "none"

\* the server answered with s
Answer(s, method, path, q, expect) ==
    [err |-> s.status # expect, remote |-> s.remote, body |-> s.body,
     req |-> Request(method, path, q, expect, s.status)]

httpRequestHelper(r, method, path, q, expect, fault) ==
    IF fault = "status"
    THEN [err |-> TRUE, remote |-> r, body |-> NoBody,
          req |-> Request(method, path, q, expect, StatusServerErr)]
    ELSE Answer(Serve(r, path, q), method, path, q, expect)

Result(err, dd, r, lg) == [err |-> err, d |-> dd, remote |-> r, log |-> lg]

\* d.SetId
SetId(dd, id) == [dd EXCEPT !.id = id]

----------------------------------------------------------------------------
(* resource_sonarqube_permissions.go                                        *)

expandPermissions(dd) == [i \in DOMAIN dd.permissions |-> dd.permissions[i]]

flattenPermissionsEmpty(input) == <<>>
flattenPermissions(input) == [i \in DOMAIN input |-> input[i]]

ProjectCreatorKeys(kept) == [i \in DOMAIN kept |-> kept[i].key]
flattenProjectCreatorPermissions(input) ==
    ProjectCreatorKeys(SelectSeq(input, LAMBDA p : p.withProjectCreator))

\* "if the permissions should be applied to a project we append the project_key"
WithProjectKey(dd, q) ==
    IF GetOk(dd.project_key) THEN ValuesAdd(q, "projectKey", dd.project_key) ELSE q

Target(ok, path, q) == [ok |-> ok, path |-> path, query |-> q]

\* the template parameter of a request to `template`, else the request to `direct`
ScopedTarget(dd, q, direct, template) ==
    IF GetOk(dd.template_id)
    THEN Target(TRUE, template, ValuesAdd(q, "templateId", dd.template_id))
    ELSE IF GetOk(dd.template_name)
    THEN Target(TRUE, template, ValuesAdd(q, "templateName", dd.template_name))
    ELSE Target(TRUE, direct, q)

CreateCreatorTargetUnchecked(dd, q) ==
    IF GetOk(dd.template_id)
    THEN Target(TRUE, PathAddCreator, ValuesAdd(q, "templateId", dd.template_id))
    ELSE IF GetOk(dd.template_name)
    THEN Target(TRUE, PathAddCreator, ValuesAdd(q, "templateName", dd.template_name))
    ELSE Target(TRUE, PathAddCreator, q)

\* Create, "special group permission set to project creator"
CreateCreatorTarget(dd, q) ==
    IF GetOk(dd.template_id)
    THEN Target(TRUE, PathAddCreator, ValuesAdd(q, "templateId", dd.template_id))
    ELSE IF GetOk(dd.template_name)
    THEN Target(TRUE, PathAddCreator, ValuesAdd(q, "templateName", dd.template_name))
    ELSE Target(FALSE, PathAddCreator, q)

CreateTargetGroupFirst(dd) ==
    IF GetOk(dd.group_name)
    THEN ScopedTarget(dd, ValuesAdd(WithProjectKey(dd, NoValues), "groupName", dd.group_name),
                      PathAddGroup, PathAddGroupTemplate)
    ELSE IF GetOk(dd.login_name)
    THEN ScopedTarget(dd, ValuesAdd(WithProjectKey(dd, NoValues), "login", dd.login_name),
                      PathAddUser, PathAddUserTemplate)
    ELSE CreateCreatorTarget(dd, WithProjectKey(dd, NoValues))

\* endpoint and parameters of Create, by principal and scope
CreateTarget(dd) ==
    IF GetOk(dd.login_name)
    THEN ScopedTarget(dd, ValuesAdd(WithProjectKey(dd, NoValues), "login", dd.login_name),
                      PathAddUser, PathAddUserTemplate)
    ELSE IF GetOk(dd.group_name)
    THEN ScopedTarget(dd, ValuesAdd(WithProjectKey(dd, NoValues), "groupName", dd.group_name),
                      PathAddGroup, PathAddGroupTemplate)
    ELSE CreateCreatorTarget(dd, WithProjectKey(dd, NoValues))

CurrentRawQueryAccumulates(q, permission) == ValuesAdd(q, "permission", permission)

\* CurrentRawQuery := RawQuery; Del("permission"); Add("permission", permission)
CurrentRawQuery(q, permission) ==
    ValuesAdd(ValuesDel(q, "permission"), "permission", permission)

RECURSIVE CreateLoop(_, _, _, _, _, _, _)

CreateLoopNextContinues(path, permissions, i, cur, lg, fault, resp) ==
    CreateLoop(path, permissions, i + 1, cur, resp.remote, Append(lg, resp.req), fault)

\* "if err != nil { return ... }", else the next iteration
CreateLoopNext(path, permissions, i, cur, lg, fault, resp) ==
    IF resp.err
    THEN [err |-> TRUE, remote |-> resp.remote, log |-> Append(lg, resp.req)]
    ELSE CreateLoop(path, permissions, i + 1, cur, resp.remote, Append(lg, resp.req), fault)

\* the request of one iteration, with the query `cur` of this iteration
CreateLoopRequest(path, permissions, i, cur, r, lg, fault) ==
    CreateLoopNext(path, permissions, i, cur, lg, fault,
                   httpRequestHelper(r, "POST", path, cur, StatusNoContent, FaultAt(fault, i)))

\* the request loop of Create from its i-th iteration on
CreateLoop(path, permissions, i, q, r, lg, fault) ==
    IF i > Len(permissions)
    THEN [err |-> FALSE, remote |-> r, log |-> lg]
    ELSE CreateLoopRequest(path, permissions, i, CurrentRawQuery(q, permissions[i]), r, lg, fault)

\* Read: query with the page size, endpoint by principal and scope
ReadTarget(dd) ==
    IF GetOk(dd.login_name)
    THEN ScopedTarget(dd, WithProjectKey(dd, ValuesAdd(NoValues, "ps", PageSize)),
                      PathUsers, PathTemplateUsers)
    ELSE IF GetOk(dd.group_name)
    THEN ScopedTarget(dd, WithProjectKey(dd, ValuesAdd(NoValues, "ps", PageSize)),
                      PathGroups, PathTemplateGroups)
    ELSE Target(TRUE, PathSearchTemplates,
                IF GetOk(dd.template_name)
                THEN ValuesAdd(WithProjectKey(dd, ValuesAdd(NoValues, "ps", PageSize)),
                               "templateName", dd.template_name)
                ELSE WithProjectKey(dd, ValuesAdd(NoValues, "ps", PageSize)))

UserMatchesExactly(value, dd) == value.login = dd.login_name
UserMatches(value, dd)     == EqualFold(value.login, dd.login_name)
GroupMatches(value, dd)    == EqualFold(value.name, dd.group_name)
TemplateMatches(value, dd) ==
    EqualFold(value.id, dd.template_id) \/ EqualFold(value.name, dd.template_name)

FoundUserOrNone(dd, users, i, r, lg) ==
    IF i = 0 THEN Result("none", dd, r, lg)
    ELSE Result("none",
                [dd EXCEPT !.login_name = users[i].login,
                           !.permissions = flattenPermissions(users[i].permissions)],
                r, lg)

\* the i-th user of the response is the first that matches (none: i = 0)
FoundUser(dd, users, i, r, lg) ==
    IF i = 0 THEN Result("notfound", dd, r, lg)
    ELSE Result("none",
                [dd EXCEPT !.login_name = users[i].login,
                           !.permissions = flattenPermissions(users[i].permissions)],
                r, lg)

FoundGroup(dd, groups, i, r, lg) ==
    IF i = 0 THEN Result("notfound", dd, r, lg)
    ELSE Result("none",
                [dd EXCEPT !.group_name = groups[i].name,
                           !.permissions = flattenPermissions(groups[i].permissions)],
                r, lg)

FoundTemplate(dd, templates, i, r, lg) ==
    IF i = 0 THEN Result("notfound", dd, r, lg)
    ELSE Result("none",
                [dd EXCEPT !.special_group_name = ProjectCreator,
                           !.permissions =
                               flattenProjectCreatorPermissions(templates[i].permissions)],
                r, lg)

\* Read after its GET: the error checks, then the scan of the decoded list
ReadResponse(dd, resp, kind_) ==
    IF resp.err THEN Result("transport", dd, resp.remote, <<resp.req>>)
    ELSE IF kind_ = "decode" THEN Result("decode", dd, resp.remote, <<resp.req>>)
    ELSE IF GetOk(dd.login_name)
    THEN FoundUser(dd, resp.body.users,
                   FirstIndex(resp.body.users, LAMBDA v : UserMatches(v, dd)),
                   resp.remote, <<resp.req>>)
    ELSE IF GetOk(dd.group_name)
    THEN FoundGroup(dd, resp.body.groups,
                    FirstIndex(resp.body.groups, LAMBDA v : GroupMatches(v, dd)),
                    resp.remote, <<resp.req>>)
    ELSE FoundTemplate(dd, resp.body.permissionTemplates,
                       FirstIndex(resp.body.permissionTemplates,
                                  LAMBDA v : TemplateMatches(v, dd)),
                       resp.remote, <<resp.req>>)

ReadRequest(r, t, kind_) == httpRequestHelper(r, "GET", t.path, t.query, StatusOK, kind_)

\* Read, as the nth request of the handler that runs it
PermissionsRead(dd, r, nth, fault) ==
    ReadResponse(dd, ReadRequest(r, ReadTarget(dd), FaultAt(fault, nth)), FaultAt(fault, nth))

CreateReturn(l, rd) == Result(rd.err, rd.d, rd.remote, l.log \o rd.log)

CreateAfterLoopIdFirst(dd, l, fault, uuid) ==
    IF l.err THEN Result("transport", SetId(dd, uuid), l.remote, l.log)
    ELSE CreateReturn(l, PermissionsRead(SetId(dd, uuid), l.remote, Len(l.log) + 1, fault))

\* Create after its loop: d.SetId(uuid), return Read(d, m)
CreateAfterLoop(dd, l, fault, uuid) ==
    IF l.err THEN Result("transport", dd, l.remote, l.log)
    ELSE CreateReturn(l, PermissionsRead(SetId(dd, uuid), l.remote, Len(l.log) + 1, fault))

CreateWithTarget(dd, r, t, fault, uuid) ==
    IF ~t.ok THEN Result("validation", dd, r, <<>>)
    ELSE CreateAfterLoop(dd,
                         CreateLoop(t.path, expandPermissions(dd), 1, t.query, r, <<>>, fault),
                         fault, uuid)

PermissionsCreate(dd, r, fault, uuid) == CreateWithTarget(dd, r, CreateTarget(dd), fault, uuid)

\* Delete, "permission target is SPECIAL GROUP set to project creator"
DeleteCreatorTarget(dd, q) ==
    IF GetOk(dd.template_id)
    THEN Target(TRUE, PathRemoveCreator, ValuesAdd(q, "templateId", dd.template_id))
    ELSE IF GetOk(dd.template_name)
    THEN Target(TRUE, PathRemoveCreator, ValuesAdd(q, "templateName", dd.template_name))
    ELSE Target(FALSE, PathRemoveCreator, q)

\* Delete adds the principal after the scope
WithPrincipal(t, key, name) == Target(t.ok, t.path, ValuesAdd(t.query, key, name))

\* endpoint and parameters of Delete, by principal and scope
DeleteTarget(dd) ==
    IF GetOk(dd.login_name)
    THEN WithPrincipal(ScopedTarget(dd, WithProjectKey(dd, NoValues),
                                    PathRemoveUser, PathRemoveUserTemplate),
                       "login", dd.login_name)
    ELSE IF GetOk(dd.group_name)
    THEN WithPrincipal(ScopedTarget(dd, WithProjectKey(dd, NoValues),
                                    PathRemoveGroup, PathRemoveGroupTemplate),
                       "groupName", dd.group_name)
    ELSE DeleteCreatorTarget(dd, WithProjectKey(dd, NoValues))

RECURSIVE DeleteLoop(_, _, _, _, _, _, _)

DeleteLoopNextContinues(path, permissions, i, cur, lg, fault, resp) ==
    DeleteLoop(path, permissions, i + 1, cur, resp.remote, Append(lg, resp.req), fault)

\* "if err != nil { return ... }", else the next iteration
DeleteLoopNext(path, permissions, i, cur, lg, fault, resp) ==
    IF resp.err
    THEN [err |-> TRUE, remote |-> resp.remote, log |-> Append(lg, resp.req)]
    ELSE DeleteLoop(path, permissions, i + 1, cur, resp.remote, Append(lg, resp.req), fault)

DeleteLoopRequest(path, permissions, i, cur, r, lg, fault) ==
    DeleteLoopNext(path, permissions, i, cur, lg, fault,
                   httpRequestHelper(r, "POST", path, cur, StatusNoContent, FaultAt(fault, i)))

\* the request loop of Delete from its i-th iteration on
DeleteLoop(path, permissions, i, q, r, lg, fault) ==
    IF i > Len(permissions)
    THEN [err |-> FALSE, remote |-> r, log |-> lg]
    ELSE DeleteLoopRequest(path, permissions, i, CurrentRawQuery(q, permissions[i]), r, lg, fault)

DeleteAfterLoop(dd, l) ==
    IF l.err THEN Result("transport", dd, l.remote, l.log)
    ELSE Result("none", dd, l.remote, l.log)

DeleteWithTarget(dd, r, t, fault) ==
    IF ~t.ok THEN Result("validation", dd, r, <<>>)
    ELSE DeleteAfterLoop(dd,
                         DeleteLoop(t.path, expandPermissions(dd), 1, t.query, r, <<>>, fault))

PermissionsDelete(dd, r, fault) == DeleteWithTarget(dd, r, DeleteTarget(dd), fault)

----------------------------------------------------------------------------
(* resource_sonarqube_gitlab_binding.go                                     *)

checkGitlabBindingSupportCaseSensitive(c) == c.sonarQubeEdition # Community
\* TRUE when the edition supports bindings (the Go function then returns nil)
checkGitlabBindingSupport(c) == ToLower(c.sonarQubeEdition) # Community

SplitAt(s, i) ==
    IF i = 0 THEN <<s>> ELSE <<SubSeq(s, 1, i - 1), SubSeq(s, i + 1, Len(s))>>

\* strings.SplitN(s, "/", 2)
SplitN2(s) == SplitAt(s, FirstIndex([k \in DOMAIN s |-> k], LAMBDA k : s[k] = "/"))

FormatBoolInverted(v) == IF v THEN StrFalse ELSE StrTrue
\* strconv.FormatBool
FormatBool(v) == IF v THEN StrTrue ELSE StrFalse

BindingIdProjectOnly(project, repository) == project
\* fmt.Sprintf("%v/%v", project, repository)
BindingId(project, repository) == project \o <<"/">> \o repository

\* Read after its GET: idSlice[1] of the Go code is idSlice[2] here
BindingReadResponse(bb, idSlice, resp, kind_) ==
    IF resp.err THEN Result("transport", bb, resp.remote, <<resp.req>>)
    ELSE IF kind_ = "decode" THEN Result("decode", bb, resp.remote, <<resp.req>>)
    ELSE IF Len(idSlice) < 2 THEN Result("panic", bb, resp.remote, <<resp.req>>)
    ELSE IF idSlice[2] = resp.body.repository /\ resp.body.alm = Gitlab
    THEN Result("none",
                [bb EXCEPT !.project = idSlice[1], !.repository = idSlice[2],
                           !.alm_setting = resp.body.key,
                           !.monorepo = FormatBool(resp.body.monorepo)],
                resp.remote, <<resp.req>>)
    ELSE Result("notfound", bb, resp.remote, <<resp.req>>)

BindingReadRequest(bb, idSlice, r, kind_) ==
    BindingReadResponse(bb, idSlice,
                        httpRequestHelper(r, "GET", PathGetBinding,
                                          ValuesAdd(NoValues, "project", idSlice[1]),
                                          StatusOK, kind_),
                        kind_)

\* Read, as the nth request of the handler that runs it
GitlabBindingRead(bb, c, r, nth, fault) ==
    IF ~checkGitlabBindingSupport(c) THEN Result("edition", bb, r, <<>>)
    ELSE BindingReadRequest(bb, SplitN2(bb.id), r, FaultAt(fault, nth))

SetBindingQuery(bb) ==
    ValuesAdd(ValuesAdd(ValuesAdd(ValuesAdd(NoValues,
        "almSetting", bb.alm_setting), "monorepo", bb.monorepo),
        "project", bb.project), "repository", bb.repository)

BindingCreateReturn(req, rd) == Result(rd.err, rd.d, rd.remote, <<req>> \o rd.log)

\* Create after its POST: d.SetId(project/repository), return Read(d, m)
BindingCreateResponse(bb, c, fault, resp) ==
    IF resp.err THEN Result("transport", bb, resp.remote, <<resp.req>>)
    ELSE BindingCreateReturn(resp.req,
             GitlabBindingRead(SetId(bb, BindingId(bb.project, bb.repository)),
                               c, resp.remote, 2, fault))

\* the handler of Create and of Update
GitlabBindingCreate(bb, c, r, fault) ==
    IF ~checkGitlabBindingSupport(c) THEN Result("edition", bb, r, <<>>)
    ELSE BindingCreateResponse(bb, c, fault,
             httpRequestHelper(r, "POST", PathSetBinding, SetBindingQuery(bb),
                               StatusNoContent, FaultAt(fault, 1)))

BindingDeleteResponse(bb, resp) ==
    IF resp.err THEN Result("transport", bb, resp.remote, <<resp.req>>)
    ELSE Result("none", bb, resp.remote, <<resp.req>>)

GitlabBindingDelete(bb, c, r, fault) ==
    IF ~checkGitlabBindingSupport(c) THEN Result("edition", bb, r, <<>>)
    ELSE BindingDeleteResponse(bb,
             httpRequestHelper(r, "POST", PathDeleteBinding,
                               ValuesAdd(NoValues, "project", bb.project),
                               StatusNoContent, FaultAt(fault, 1)))

GitlabBindingImport(bb, c, r, fault) == GitlabBindingRead(bb, c, r, 1, fault)

----------------------------------------------------------------------------
(* Initial states: one declaration, one prior state of the server.  A       *)
(* binding may already have its identity, stored by an earlier run.         *)

\* "project_key" ConflictsWith the template fields, "template_id" with "template_name"
ScopeConflict(dd) ==
    \/ GetOk(dd.project_key) /\ (GetOk(dd.template_id) \/ GetOk(dd.template_name))
    \/ GetOk(dd.template_id) /\ GetOk(dd.template_name)

\* ExactlyOneOf: []string{"login_name", "group_name", "special_group_name"}
ExactlyOneOf(dd) ==
    Cardinality({k \in {"login_name", "group_name", "special_group_name"} : GetOk(dd[k])}) = 1

Declarations ==
    {dd \in [login_name : LoginNames, group_name : GroupNames,
             special_group_name : SpecialNames, project_key : ProjectKeys,
             template_id : TemplateIds, template_name : TemplateNames,
             permissions : PermLists, id : {Empty}] : ~ScopeConflict(dd)}

ZeroD == [login_name |-> Empty, group_name |-> Empty, special_group_name |-> Empty,
          project_key |-> Empty, template_id |-> Empty, template_name |-> Empty,
          permissions |-> <<>>, id |-> Empty]

AlmSettings  == {<<"g","l">>, <<"g","2">>}
Monorepos    == {StrFalse, <<"T","R","U","E">>}
Repositories == {<<"r">>, <<"b","/","r">>}
BindingProjects == {<<"a">>, <<"a","/","b">>}
ImportIds    == {Empty, <<"a">>, <<"a","/","r">>, <<"a","/","b","/","r">>}

BindingDeclarations ==
    [alm_setting : AlmSettings, monorepo : Monorepos, project : BindingProjects,
     repository : Repositories, id : {Empty}]

ZeroB == [alm_setting |-> Empty, monorepo |-> Empty, project |-> Empty,
          repository |-> Empty, id |-> Empty]

Developer == <<"d","e","v","e","l","o","p","e","r">>
Editions == {Community, <<"C","o","m","m","u","n","i","t","y">>,
             <<"C","O","M","M","U","N","I","T","Y">>, Developer}

Everywhere(list) == [s \in Scopes |-> list]
Entry(name, permissions) == [name |-> name, permissions |-> permissions]
Template(id, name, permissions) == [id |-> id, name |-> name, permissions |-> permissions]
CreatorPerm(key, flag) == [key |-> key, withProjectCreator |-> flag]
Unbound == [p \in ServerProjects |-> NoBinding]

\* nobody holds a permission yet
RemoteFresh ==
    [users |-> Everywhere(<<>>), groups |-> Everywhere(<<>>),
     templates |-> <<Template(<<"X","2">>, <<"O","t">>, <<>>),
                     Template(<<"T","1">>, <<"D","f">>, <<CreatorPerm(PermScan, FALSE)>>)>>,
     bindings |-> Unbound]

\* the principals already hold another permission
RemoteGranted ==
    [users |-> Everywhere(<<Entry(<<"A","l">>, <<PermAdmin>>)>>),
     groups |-> Everywhere(<<Entry(<<"D","v">>, <<PermAdmin>>)>>),
     templates |-> <<Template(<<"T","1">>, <<"D","f">>, <<CreatorPerm(PermAdmin, TRUE)>>)>>,
     bindings |-> Unbound]

\* the server holds records whose names differ from the declared ones in case only
RemoteOtherCase ==
    [users |-> Everywhere(<<Entry(<<"A","L">>, <<PermScan>>), Entry(<<"a","l">>, <<PermUser>>)>>),
     groups |-> Everywhere(<<Entry(<<"D","V">>, <<PermScan>>), Entry(<<"d","v">>, <<PermUser>>)>>),
     templates |-> <<Template(<<"t","1">>, <<"d","f">>,
                              <<CreatorPerm(PermScan, TRUE), CreatorPerm(PermUser, FALSE)>>),
                     Template(<<"T","1">>, <<"D","F">>, <<>>)>>,
     bindings |-> Unbound]

PriorRemotes == {RemoteFresh, RemoteGranted, RemoteOtherCase}

\* project "a" is already bound: to a GitLab repository, or to another ALM
RemoteBoundGitlab ==
    [RemoteFresh EXCEPT !.bindings[<<"a">>] =
        [bound |-> TRUE, key |-> <<"g","l">>, alm |-> Gitlab,
         repository |-> <<"b","/","r">>, monorepo |-> TRUE]]
RemoteBoundGithub ==
    [RemoteFresh EXCEPT !.bindings[<<"a">>] =
        [bound |-> TRUE, key |-> <<"g","h">>, alm |-> Github,
         repository |-> <<"r">>, monorepo |-> FALSE]]

PriorBindingRemotes == {RemoteFresh, RemoteBoundGitlab, RemoteBoundGithub}

Init ==
    /\ kind \in {"permissions", "gitlab_binding"}
    /\ IF kind = "permissions"
       THEN /\ conf = [sonarQubeEdition |-> Developer]
            /\ d \in Declarations
            /\ b = ZeroB
            /\ remote \in PriorRemotes
            /\ arg = d
       ELSE /\ conf \in [sonarQubeEdition : Editions]
            /\ d = ZeroD
            /\ \E bb \in BindingDeclarations :
                 \/ b = bb
                 \/ bb.project \in ServerProjects
                    /\ b = SetId(bb, BindingId(bb.project, bb.repository))
            /\ remote \in PriorBindingRemotes
            /\ arg = b
    /\ log = <<>>
    /\ lastOp = "Init"
    /\ lastErr = "none"
    /\ createdId = Empty

----------------------------------------------------------------------------
(* Actions: one per handler.  Create is called for a resource that has no   *)
(* identity yet, Update for one that has.                                   *)

\* the handler reached d.SetId: the last request is the GET of its Read
IdStored(res) == res.log # <<>> /\ res.log[Len(res.log)].method = "GET"

Permissions(op, res) ==
    /\ d' = res.d
    /\ remote' = res.remote
    /\ log' = res.log
    /\ lastOp' = op
    /\ lastErr' = res.err
    /\ arg' = d
    /\ createdId' = IF op = "Create" /\ IdStored(res) THEN res.d.id ELSE createdId
    /\ UNCHANGED <<kind, conf, b>>

Binding(op, input, res) ==
    /\ b' = IF op = "Import" /\ res.err # "none" THEN b ELSE res.d
    /\ remote' = res.remote
    /\ log' = res.log
    /\ lastOp' = op
    /\ lastErr' = res.err
    /\ arg' = input
    /\ createdId' = IF op = "Create" /\ IdStored(res) THEN res.d.id ELSE createdId
    /\ UNCHANGED <<kind, conf, d>>

resourceSonarqubePermissionsCreate ==
    /\ kind = "permissions"
    /\ d.id = Empty
    /\ \E fault \in Faults(Len(d.permissions) + 1), uuid \in UUIDs :
         Permissions("Create", PermissionsCreate(d, remote, fault, uuid))

resourceSonarqubePermissionsRead ==
    /\ kind = "permissions"
    /\ \E fault \in Faults(1) :
         Permissions("Read", PermissionsRead(d, remote, 1, fault))

resourceSonarqubePermissionsDelete ==
    /\ kind = "permissions"
    /\ \E fault \in StatusFaults(Len(d.permissions)) :
         Permissions("Delete", PermissionsDelete(d, remote, fault))

resourceSonarqubeGitlabBindingCreate ==
    /\ kind = "gitlab_binding"
    /\ b.id = Empty
    /\ \E fault \in Faults(2) :
         Binding("Create", b, GitlabBindingCreate(b, conf, remote, fault))

\* the fields of the plan that Update may change ("project" forces a new resource)
Planned(bb, alm, mono, repo) ==
    [bb EXCEPT !.alm_setting = alm, !.monorepo = mono, !.repository = repo]

UpdateWith(input, fault) ==
    Binding("Update", input, GitlabBindingCreate(input, conf, remote, fault))

\* Update is the Create handler, called with the changed fields of the plan
resourceSonarqubeGitlabBindingUpdate ==
    /\ kind = "gitlab_binding"
    /\ b.id # Empty
    /\ \E alm \in AlmSettings \cup {b.alm_setting}, mono \in Monorepos \cup {b.monorepo},
          repo \in Repositories, fault \in Faults(2) :
         UpdateWith(Planned(b, alm, mono, repo), fault)

resourceSonarqubeGitlabBindingRead ==
    /\ kind = "gitlab_binding"
    /\ \E fault \in Faults(1) :
         Binding("Read", b, GitlabBindingRead(b, conf, remote, 1, fault))

resourceSonarqubeGitlabBindingDelete ==
    /\ kind = "gitlab_binding"
    /\ \E fault \in StatusFaults(1) :
         Binding("Delete", b, GitlabBindingDelete(b, conf, remote, fault))

ImportWith(input, fault) ==
    Binding("Import", input, GitlabBindingImport(input, conf, remote, fault))

\* Import starts from a ResourceData that holds the raw identity only; on an
\* error it returns no ResourceData
resourceSonarqubeGitlabBindingImport ==
    /\ kind = "gitlab_binding"
    /\ b.id = Empty
    /\ \E raw \in ImportIds, fault \in Faults(1) :
         ImportWith(SetId(ZeroB, raw), fault)

\* the records are removed on the server behind the provider's back
OutOfBand ==
    /\ remote # RemoteFresh
    /\ remote' = RemoteFresh
    /\ log' = <<>>
    /\ lastOp' = "OutOfBand"
    /\ lastErr' = "none"
    /\ arg' = IF kind = "permissions" THEN d ELSE b
    /\ UNCHANGED <<kind, conf, d, b, createdId>>

Next ==
    \/ resourceSonarqubePermissionsCreate
    \/ resourceSonarqubePermissionsRead
    \/ resourceSonarqubePermissionsDelete
    \/ resourceSonarqubeGitlabBindingCreate
    \/ resourceSonarqubeGitlabBindingUpdate
    \/ resourceSonarqubeGitlabBindingRead
    \/ resourceSonarqubeGitlabBindingDelete
    \/ resourceSonarqubeGitlabBindingImport
    \/ OutOfBand

Spec == Init /\ [][Next]_vars

----------------------------------------------------------------------------
(* Properties                                                               *)

\* no selector resolves to a user or a group, and no template is named
SpecialGroupWithoutTemplate(dd) ==
    /\ dd.login_name = Empty /\ dd.group_name = Empty
    /\ dd.template_id = Empty /\ dd.template_name = Empty

PermissionsRan(ops) == kind = "permissions" /\ lastOp \in ops
BindingRan(ops)     == kind = "gitlab_binding" /\ lastOp \in ops

\* every request the last handler issued was answered with the expected status
AllSucceeded == \A i \in DOMAIN log : log[i].status = log[i].expect

\* every POST the last handler issued was answered with 204
PostsSucceeded ==
    \A i \in DOMAIN log : log[i].method = "POST" => log[i].status = StatusNoContent

\* C1: a special-group declaration that names no template makes Create and
\* Delete return a validation error without issuing a request, whatever its
\* permissions list is
C1_SpecialGroupNeedsTemplate ==
    PermissionsRan({"Create", "Delete"}) /\ SpecialGroupWithoutTemplate(arg)
        => lastErr = "validation" /\ log = <<>>

C1_Witness ==
    /\ PermissionsRan({"Delete"}) /\ SpecialGroupWithoutTemplate(arg)
    /\ Len(arg.permissions) = MaxPerms
    /\ lastErr = "validation" /\ log = <<>>

\* C2: under an edition equal to "community" up to letter case every binding
\* operation returns the edition error and issues no request; under any other
\* edition no binding operation returns the edition error
C2_EditionGating ==
    BindingRan({"Create", "Update", "Read", "Delete", "Import"})
        => IF EqualFold(conf.sonarQubeEdition, Community)
           THEN lastErr = "edition" /\ log = <<>>
           ELSE lastErr # "edition"

C2_Witness ==
    /\ BindingRan({"Update"})
    /\ conf.sonarQubeEdition = <<"C","O","M","M","U","N","I","T","Y">>
    /\ lastErr = "edition" /\ log = <<>>

\* the modes a declaration resolves to: the first selector that is set wins
PrincipalMode(dd) ==
    IF dd.login_name # Empty THEN "user"
    ELSE IF dd.group_name # Empty THEN "group"
    ELSE "special-group"

ScopeMode(dd) ==
    IF dd.template_id # Empty THEN "template-by-id"
    ELSE IF dd.template_name # Empty THEN "template-by-name"
    ELSE IF dd.project_key # Empty THEN "project"
    ELSE "global"

TemplateScoped(dd) == ScopeMode(dd) \in {"template-by-id", "template-by-name"}

\* the lookup table (principal mode, scope mode, operation) -> endpoint
Endpoint(dd, op) ==
    CASE PrincipalMode(dd) = "user" /\ op = "Create" ->
            IF TemplateScoped(dd) THEN PathAddUserTemplate ELSE PathAddUser
      [] PrincipalMode(dd) = "user" /\ op = "Delete" ->
            IF TemplateScoped(dd) THEN PathRemoveUserTemplate ELSE PathRemoveUser
      [] PrincipalMode(dd) = "user" /\ op = "Read" ->
            IF TemplateScoped(dd) THEN PathTemplateUsers ELSE PathUsers
      [] PrincipalMode(dd) = "group" /\ op = "Create" ->
            IF TemplateScoped(dd) THEN PathAddGroupTemplate ELSE PathAddGroup
      [] PrincipalMode(dd) = "group" /\ op = "Delete" ->
            IF TemplateScoped(dd) THEN PathRemoveGroupTemplate ELSE PathRemoveGroup
      [] PrincipalMode(dd) = "group" /\ op = "Read" ->
            IF TemplateScoped(dd) THEN PathTemplateGroups ELSE PathGroups
      [] PrincipalMode(dd) = "special-group" /\ op = "Create" -> PathAddCreator
      [] PrincipalMode(dd) = "special-group" /\ op = "Delete" -> PathRemoveCreator
      [] PrincipalMode(dd) = "special-group" /\ op = "Read" -> PathSearchTemplates

One(v) == IF v = Empty THEN <<>> ELSE <<v>>

\* the parameters of a Create or Delete request for the permission p
Parameters(dd, p) ==
    [k \in QueryKeys |->
        CASE k = "permission"   -> <<p>>
          [] k = "projectKey"   -> One(dd.project_key)
          [] k = "login"        -> IF PrincipalMode(dd) = "user" THEN <<dd.login_name>> ELSE <<>>
          [] k = "groupName"    -> IF PrincipalMode(dd) = "group" THEN <<dd.group_name>> ELSE <<>>
          [] k = "templateId"   -> One(dd.template_id)
          [] k = "templateName" -> IF dd.template_id = Empty THEN One(dd.template_name) ELSE <<>>
          [] OTHER -> <<>>]

\* C3: when every request succeeds, Create issues one POST per declared
\* permission, in list order, each to the add endpoint of the declaration's
\* modes, expecting 204 and carrying the principal and scope parameters with
\* the one permission of its turn; one GET, the Read, follows
C3_CreateRequests ==
    PermissionsRan({"Create"}) /\ lastErr # "validation" /\ PostsSucceeded
        => /\ Len(log) = Len(arg.permissions) + 1
           /\ \A i \in DOMAIN arg.permissions :
                log[i] = Request("POST", Endpoint(arg, "Create"),
                                 Parameters(arg, arg.permissions[i]),
                                 StatusNoContent, StatusNoContent)
           /\ log[Len(log)].method = "GET"
           /\ log[Len(log)].path = Endpoint(arg, "Read")

C3_Witness ==
    /\ PermissionsRan({"Create"}) /\ AllSucceeded
    /\ arg.permissions = <<PermScan, PermUser>>
    /\ Len(log) = 3
    /\ log[1].query["permission"] = <<PermScan>>
    /\ log[2].query["permission"] = <<PermUser>>
    /\ log[3].method = "GET"

LastRequest == log[Len(log)]

\* the last handler ended with the GET of Read, answered 200 with a body that decodes
ReadAnswered ==
    /\ kind = "permissions" /\ log # <<>>
    /\ LastRequest.method = "GET" /\ LastRequest.status = StatusOK
    /\ lastErr # "decode"

\* the permissions of a template that the project creator holds
Held(perms) ==
    [i \in 1..Cardinality({j \in DOMAIN perms : perms[j].withProjectCreator}) |->
        perms[CHOOSE j \in DOMAIN perms :
                /\ perms[j].withProjectCreator
                /\ Cardinality({k \in 1..j : perms[k].withProjectCreator}) = i].key]

\* the records of the list that the GET returned
Returned(dd) ==
    CASE PrincipalMode(dd) = "user" ->
            remote.users[ScopeOfRequest(remote, LastRequest.path, LastRequest.query)]
      [] PrincipalMode(dd) = "group" ->
            remote.groups[ScopeOfRequest(remote, LastRequest.path, LastRequest.query)]
      [] PrincipalMode(dd) = "special-group" ->
            [i \in DOMAIN remote.templates |->
                [id |-> remote.templates[i].id, name |-> remote.templates[i].name,
                 permissions |-> Held(remote.templates[i].permissions)]]

\* the record e is the one the declaration selects, letter case aside
Selects(dd, e) ==
    CASE PrincipalMode(dd) = "user"  -> EqualFold(e.name, dd.login_name)
      [] PrincipalMode(dd) = "group" -> EqualFold(e.name, dd.group_name)
      [] PrincipalMode(dd) = "special-group" ->
            EqualFold(e.id, dd.template_id) \/ EqualFold(e.name, dd.template_name)

\* the index of the first returned record that the declaration selects
FirstSelected(dd) ==
    CHOOSE i \in DOMAIN Returned(dd) :
        Selects(dd, Returned(dd)[i]) /\ \A j \in 1..(i - 1) : ~Selects(dd, Returned(dd)[j])

SomeSelected(dd) == \E i \in DOMAIN Returned(dd) : Selects(dd, Returned(dd)[i])

\* the declared selector value
Selector(dd) ==
    CASE PrincipalMode(dd) = "user"  -> dd.login_name
      [] PrincipalMode(dd) = "group" -> dd.group_name
      [] PrincipalMode(dd) = "special-group" -> dd.special_group_name

\* the declaration after Read: the selector and the permissions are the
\* record's, every other field is as it was
ReadBack(dd, e) ==
    CASE PrincipalMode(dd) = "user" ->
            [dd EXCEPT !.login_name = e.name, !.permissions = e.permissions, !.id = d.id]
      [] PrincipalMode(dd) = "group" ->
            [dd EXCEPT !.group_name = e.name, !.permissions = e.permissions, !.id = d.id]
      [] PrincipalMode(dd) = "special-group" ->
            [dd EXCEPT !.special_group_name = ProjectCreator, !.permissions = e.permissions,
                       !.id = d.id]

\* C4 as stated: a successful Create, which ends with Read, leaves the
\* declaration it was given, the permissions list included; of a binding
\* only the monorepo flag may be normalised
C4_RoundTrip ==
    /\ PermissionsRan({"Create"}) /\ lastErr = "none" /\ ExactlyOneOf(arg)
            => d = [arg EXCEPT !.id = d.id]
    /\ BindingRan({"Create"}) /\ lastErr = "none"
            => b = [arg EXCEPT !.id = b.id, !.monorepo = b.monorepo]

\* C4 amended: a successful Create leaves the declaration it was given except
\* that the selector and the permissions list are those of the first record of
\* the server's list that the selector matches up to letter case (for the
\* special group: the permissions its template grants the project creator);
\* a binding is left as declared with the monorepo flag in lower case and the
\* identity project/repository
C4_ReadBackIsServerRecord ==
    /\ PermissionsRan({"Create"}) /\ lastErr = "none"
            => /\ SomeSelected(arg)
               /\ d = ReadBack(arg, Returned(arg)[FirstSelected(arg)])
               /\ d.id \in UUIDs
    /\ BindingRan({"Create"}) /\ lastErr = "none"
            => b = [arg EXCEPT !.id = arg.project \o <<"/">> \o arg.repository,
                               !.monorepo = ToLower(arg.monorepo)]

\* the principal held "admin" before: the list read back is longer than declared
C4_Witness ==
    /\ PermissionsRan({"Create"}) /\ lastErr = "none" /\ ExactlyOneOf(arg)
    /\ arg.permissions = <<PermUser, PermUser>>
    /\ d.permissions = <<PermAdmin, PermUser>>

\* C5: when the list that Read gets holds a record whose name (login, group
\* name, template id or name) equals the declared selector up to letter case,
\* Read succeeds and the permissions become those of the first such record
C5_ReadMatchesCaseInsensitively ==
    ReadAnswered /\ SomeSelected(arg)
        => /\ lastErr = "none"
           /\ d.permissions = Returned(arg)[FirstSelected(arg)].permissions

\* the login "AL" is matched by the declared "Al", ahead of "al"
C5_Witness ==
    /\ PermissionsRan({"Read"}) /\ ReadAnswered /\ lastErr = "none"
    /\ arg.login_name = <<"A","l">>
    /\ Len(Returned(arg)) = 2
    /\ Returned(arg)[1].name = <<"A","L">> /\ Returned(arg)[2].name = <<"a","l">>
    /\ d.login_name = <<"A","L">>
    /\ d.permissions = Returned(arg)[1].permissions
    /\ d.permissions # Returned(arg)[2].permissions

\* every request of the last handler went to the endpoint of the declaration's modes
ResolvedOnce ==
    \A i \in DOMAIN log :
        log[i].path = Endpoint(arg, IF log[i].method = "GET" THEN "Read" ELSE lastOp)

StoredId == IF kind = "permissions" THEN d.id ELSE b.id

\* C7 as stated: once Create has stored the identity, the stored identity is
\* that one after every later Create, Read and Update
C7_IdentityStable == createdId # Empty => StoredId = createdId

\* C7 amended: the identity of a permissions resource never changes once set;
\* that of a binding is left alone by Read and Delete and by an Update whose
\* declaration has the project and repository it names, while an Update whose
\* POST succeeds replaces it by project/repository of the new declaration
C7_IdentityFollowsRepository ==
    [][/\ kind = "permissions" /\ d.id # Empty => d'.id = d.id
       /\ kind = "gitlab_binding" /\ b.id # Empty
            => /\ lastOp' # "Update" => b'.id = b.id
               /\ lastOp' = "Update" /\ arg'.project \o <<"/">> \o arg'.repository = b.id
                    => b'.id = b.id
               /\ lastOp' = "Update" /\ log' # <<>> /\ log'[1].status = StatusNoContent
                    => b'.id = arg'.project \o <<"/">> \o arg'.repository
               /\ lastOp' = "Update" /\ (log' = <<>> \/ log'[1].status # StatusNoContent)
                    => b'.id = b.id]_vars

\* an Update changed the repository, and with it the identity that Create stored
C7_Witness ==
    /\ BindingRan({"Update"}) /\ lastErr = "none"
    /\ createdId # Empty /\ b.id # createdId
    /\ b.id = arg.project \o <<"/">> \o arg.repository

Range(seq) == {seq[i] : i \in DOMAIN seq}

\* the records the server r holds for the principal dd names, in the scope
\* that the request req names
Records(r, dd, req) ==
    CASE PrincipalMode(dd) = "user" ->
            IF ScopeOfRequest(r, req.path, req.query) = NoScope THEN {}
            ELSE {e \in Range(r.users[ScopeOfRequest(r, req.path, req.query)]) :
                    e.name = dd.login_name}
      [] PrincipalMode(dd) = "group" ->
            IF ScopeOfRequest(r, req.path, req.query) = NoScope THEN {}
            ELSE {e \in Range(r.groups[ScopeOfRequest(r, req.path, req.query)]) :
                    e.name = dd.group_name}
      [] PrincipalMode(dd) = "special-group" ->
            IF TemplateIndex(r.templates, req.query) = 0 THEN {}
            ELSE {[name |-> ProjectCreator,
                   permissions |->
                       Held(r.templates[TemplateIndex(r.templates, req.query)].permissions)]}

\* the server r holds permission p for that principal in that scope
Applied(r, dd, req, p) == \E e \in Records(r, dd, req) : p \in Range(e.permissions)

\* C8: when the k-th POST of Create fails, Create returns the error, has
\* issued k requests, all of them POSTs to the add endpoint for permissions
\* 1..k in order (no request for a later permission, no Read, no removal, no
\* second attempt), stores no identity, and permissions 1..k-1 stay granted
C8_CreateAbortsAtFirstFailure ==
    PermissionsRan({"Create"}) /\ ~PostsSucceeded
        => /\ lastErr = "transport"
           /\ Len(log) <= Len(arg.permissions)
           /\ \A i \in DOMAIN log :
                /\ log[i].method = "POST"
                /\ log[i].path = Endpoint(arg, "Create")
                /\ log[i].query = Parameters(arg, arg.permissions[i])
                /\ log[i].status = StatusNoContent <=> i < Len(log)
           /\ \A i \in 1..(Len(log) - 1) : Applied(remote, arg, log[1], arg.permissions[i])
           /\ d = arg

\* the second POST failed: the first permission is granted, the second is not
C8_Witness ==
    /\ PermissionsRan({"Create"}) /\ lastErr = "transport"
    /\ Len(arg.permissions) >= 2 /\ Len(log) = 2
    /\ log[1].status = StatusNoContent /\ log[2].status # StatusNoContent
    /\ Applied(remote, arg, log[1], arg.permissions[1])
    /\ ~Applied(remote, arg, log[1], arg.permissions[2])

\* the permissions whose removal the last handler requested with success
Removed == {arg.permissions[i] : i \in {j \in DOMAIN log : log[j].status = StatusNoContent}}

\* C9: Delete issues no GET; it issues POSTs to the remove endpoint for the
\* declared permissions in order, at least one, and stops after the first that
\* is not answered 204; it succeeds exactly when every request was answered
\* 204, whatever the server held; a permission whose removal was not requested
\* with success stays granted
C9_DeleteStopsAtFirstFailure ==
    /\ [](PermissionsRan({"Delete"}) /\ lastErr # "validation"
            => /\ Len(log) \in 0..Len(arg.permissions)
               /\ \A i \in DOMAIN log :
                    /\ log[i].method = "POST"
                    /\ log[i].path = Endpoint(arg, "Delete")
                    /\ log[i].query = Parameters(arg, arg.permissions[i])
                    /\ i < Len(log) => log[i].status = StatusNoContent
               /\ AllSucceeded => Len(log) = Len(arg.permissions)
               /\ lastErr = "none" <=> AllSucceeded
               /\ lastErr # "none" => lastErr = "transport"
               /\ d = arg)
    /\ [][kind' = "permissions" /\ lastOp' = "Delete" /\ log' # <<>>
            => \A p \in (Perms \cup {PermAdmin}) \ Removed' :
                 Applied(remote, arg', log'[1], p) => Applied(remote', arg', log'[1], p)]_vars

\* the record was removed behind the provider's back after Create; Delete
\* still issues its requests and succeeds
C9_Witness ==
    /\ PermissionsRan({"Delete"}) /\ lastErr = "none"
    /\ PrincipalMode(arg) = "user" /\ d.id # Empty
    /\ Len(log) = 2
    /\ remote = RemoteFresh

\* C10: an Update of a binding with the declaration that the last successful
\* Create or Update left, against the server state it left, changes neither
\* the server state nor the declaration nor its identity
C10_UpdateIdempotent ==
    [][(BindingRan({"Create", "Update"}) /\ lastErr = "none"
            /\ lastOp' = "Update" /\ arg' = b)
        => remote' = remote /\ b' = b]_vars

C10_Witness ==
    /\ BindingRan({"Update"}) /\ lastErr = "none"
    /\ createdId # Empty /\ arg = b
    /\ remote.bindings[b.project].repository = b.repository

\* the part of a binding identity before its first "/" and the part after it
ProjectPart(id) ==
    IF \E k \in DOMAIN id : id[k] = "/"
    THEN SubSeq(id, 1, (CHOOSE k \in DOMAIN id :
                            id[k] = "/" /\ \A j \in 1..(k - 1) : id[j] # "/") - 1)
    ELSE id

RepositoryPart(id) ==
    SubSeq(id, Len(ProjectPart(id)) + 2, Len(id))

HasSeparator(id) == \E k \in DOMAIN id : id[k] = "/"

\* the GET of a binding Read was answered 200 with a body that decodes
BindingAnswered ==
    /\ kind = "gitlab_binding" /\ log # <<>>
    /\ LastRequest.method = "GET" /\ LastRequest.status = StatusOK
    /\ lastErr # "decode"

\* C11: Read issues one GET and no more (none for a binding under the
\* community edition); when no record of the answer matches the declaration
\* (permissions: no entry for the declared login, group or template; binding:
\* another repository than the identity names, or another ALM than gitlab)
\* Read returns the not-found error and leaves the declaration as it was
C11_ReadNotFound ==
    /\ PermissionsRan({"Read"})
            => /\ Len(log) = 1 /\ log[1].method = "GET"
               /\ log[1].query["ps"] = <<PageSize>>
               /\ ReadAnswered /\ ~SomeSelected(arg) => lastErr = "notfound" /\ d = arg
    /\ BindingRan({"Read"})
            => /\ IF lastErr = "edition" THEN log = <<>>
                  ELSE Len(log) = 1 /\ log[1].method = "GET"
               /\ (/\ BindingAnswered /\ HasSeparator(arg.id)
                   /\ \/ remote.bindings[ProjectPart(arg.id)].repository # RepositoryPart(arg.id)
                      \/ remote.bindings[ProjectPart(arg.id)].alm # Gitlab)
                    => lastErr = "notfound" /\ b = arg

\* the resource was created and its record then removed on the server: the
\* answer to Read holds no entry for the declared user
C11_Witness ==
    /\ PermissionsRan({"Read"}) /\ ReadAnswered
    /\ PrincipalMode(arg) = "user" /\ arg.id # Empty
    /\ ~SomeSelected(arg)
    /\ lastErr = "notfound" /\ d = arg

\* the binding declaration holds every field
Populated(bb) ==
    /\ bb.project # Empty /\ bb.repository # Empty
    /\ bb.alm_setting # Empty /\ bb.monorepo \in {StrTrue, StrFalse}

\* C12: the identity that Create stores is project "/" repository, the Read
\* that parses it asks the server for that project and, when it succeeds,
\* leaves project and repository as declared; Import of any raw identity, one
\* without "/" included, returns either a populated declaration or an error
C12_IdentityRoundTrip ==
    /\ BindingRan({"Create"}) /\ log # <<>> /\ log[1].status = StatusNoContent
            => /\ b.id = arg.project \o <<"/">> \o arg.repository
               /\ Len(log) = 2 /\ log[2].query["project"] = <<arg.project>>
               /\ lastErr = "none"
                    => b.project = arg.project /\ b.repository = arg.repository
    /\ BindingRan({"Import"})
            => \/ lastErr = "none" /\ b.id = arg.id /\ Populated(b)
               \/ lastErr \in {"edition", "transport", "decode", "notfound"}

\* C13: Read of a special-group declaration that names no template returns
\* the validation error without issuing a request
C13_ReadNeedsTemplate ==
    (PermissionsRan({"Read"}) /\ SpecialGroupWithoutTemplate(arg)
        /\ arg.special_group_name = ProjectCreator)
        => lastErr = "validation" /\ log = <<>>

\* C14: Create stores the identity only after every POST succeeded: when it
\* returns the validation error or the error of a POST, the identity is unset
\* although the permissions of the earlier POSTs are granted on the server;
\* when every POST succeeded the identity is set, also when the Read that
\* follows fails
C14_IdentityAfterRequests ==
    PermissionsRan({"Create"})
        => IF lastErr = "validation" \/ ~PostsSucceeded
           THEN /\ d.id = Empty
                /\ \A i \in 1..(Len(log) - 1) : Applied(remote, arg, log[1], arg.permissions[i])
           ELSE /\ d.id \in UUIDs
                /\ Len(log) = Len(arg.permissions) + 1

\* every POST succeeded and the Read failed: the identity stays
C14_Witness ==
    /\ PermissionsRan({"Create"}) /\ PostsSucceeded
    /\ Len(log) = Len(arg.permissions) + 1
    /\ lastErr \in {"transport", "decode", "notfound"}
    /\ d.id \in UUIDs

====
